---- MODULE Spec2Model ----
(***************************************************************************)
(* JSONComparator (src/src/JSONComparator.tsx): the structural differ      *)
(* compareObjects, the string highlighter getStringDiffSpans with its      *)
(* renderer, and the component state driven by the Compare / Edit / Clear  *)
(* handlers.                                                               *)
(*                                                                         *)
(* A JavaScript string that the code indexes (the highlighter's inputs, a  *)
(* string leaf) is a sequence of one-character strings; object keys and    *)
(* paths, which the code only concatenates and tests for emptiness, are    *)
(* TLA+ strings.                                                           *)
(***************************************************************************)
EXTENDS Integers, Sequences, FiniteSets, Bags, TLC

VARIABLES
    \* the differ called as a function
    obj1, obj2, results, reversed, cmpPc,
    \* the highlighter and the renderer of one diff record
    oldStr, newStr, spans, diffLine, strPc,
    \* the component state (useState hooks)
    json1, json2, error1, error2, isShowingDiffs, diffs, showOnlyDiffs,
    \* history: the handler that ran last and the diffs it found
    lastOp, diffsBefore

cmpVars == <<obj1, obj2, results, reversed, cmpPc>>
strVars == <<oldStr, newStr, spans, diffLine, strPc>>
uiVars == <<json1, json2, error1, error2, isShowingDiffs, diffs, showOnlyDiffs, lastOp, diffsBefore>>
vars == <<cmpVars, strVars, uiVars>>

----------------------------------------------------------------------------
(* Bounds of the model *)

\* longest string handed to the highlighter
MaxStrLen == 3
\* most elements of a generated array
MaxArrLen == 1

----------------------------------------------------------------------------
(* JsonValue: a decoded JSON value, and the two non-JSON values the code   *)
(* can meet: undefined (an absent property) and an inherited function.     *)
(* Every value has the same shape: t the kind, p the primitive's text,     *)
(* k the own enumerable keys in Object.keys order, c the children.         *)

Val(t, p, k, c) == [t |-> t, p |-> p, k |-> k, c |-> c]
Null == Val("null", <<>>, <<>>, <<>>)
Undefined == Val("undefined", <<>>, <<>>, <<>>)
Num(d) == Val("number", <<d>>, <<>>, <<>>)
Str(s) == Val("string", s, <<>>, <<>>)
Fn(name) == Val("function", <<name>>, <<>>, <<>>)
Obj(keys, children) == Val("object", <<>>, keys, children)

\* the index keys of an array, as Object.keys reports them
IndexKey(i) == CASE i = 1 -> "0" [] i = 2 -> "1" [] i = 3 -> "2" [] OTHER -> "3"
Arr(children) == Val("array", <<>>, [i \in 1..Len(children) |-> IndexKey(i)], children)

\* typeof: null, arrays and plain objects all answer "object"
TypeOf(v) == IF v.t \in {"null", "array", "object"} THEN "object" ELSE v.t

IsContainer(v) == v.t \in {"array", "object"}

Range(s) == {s[i] : i \in 1..Len(s)}

\* Object.keys(o)
ObjectKeys(o) == o.k

\* what an object inherits: Object.prototype's members for every object, and
\* an array's own non-enumerable length (of the members, the one the key
\* universe below holds is toString)
InheritedKeys(o) ==
    IF o.t = "array" THEN {"toString", "length"}
    ELSE IF o.t = "object" THEN {"toString"}
    ELSE {}

\* key in o: own or inherited
HasKey(key, o) == key \in Range(o.k) \/ key \in InheritedKeys(o)

LenText(n) == CASE n = 0 -> "0" [] n = 1 -> "1" [] n = 2 -> "2" [] OTHER -> "3"

\* o[key]: the own property, else the inherited one, else undefined
Get(o, key) ==
    IF key \in Range(o.k)
    THEN o.c[CHOOSE i \in 1..Len(o.k) : o.k[i] = key]
    ELSE IF key = "length" /\ o.t = "array" THEN Num(LenText(Len(o.c)))
    ELSE IF key \in InheritedKeys(o) THEN Fn(key)
    ELSE Undefined

\* == in place of ===: the kinds are not compared
LooseEq(v1, v2) == ~IsContainer(v1) /\ ~IsContainer(v2) /\ v1.p = v2.p

\* v1 === v2 where the code evaluates it: at least one side is not a non-null
\* object, so no two containers are ever compared by reference
StrictEq(v1, v2) == v1.t = v2.t /\ ~IsContainer(v1) /\ v1.p = v2.p

----------------------------------------------------------------------------
(* compareObjects *)

DiffResult(p, ty, old, new) == [path |-> p, type |-> ty, oldValue |-> old, newValue |-> new]

\* a differ that walks the first object's keys only
AllKeysFirstOnly(keys1, keys2) == keys1

\* new Set([...keys1, ...keys2]) in iteration order
AllKeys(keys1, keys2) == keys1 \o SelectSeq(keys2, LAMBDA k : k \notin Range(keys1))

\* path ? `${path}.${key}` : key
NewPath(p, key) == IF p # "" THEN p \o "." \o key ELSE key

\* path || "root"
PathOrRoot(p) == IF p # "" THEN p ELSE "root"

RECURSIVE compareObjects(_, _, _)

\* a callback that reports two containers as one record instead of recursing
ForEachKeyNoRecursion(obj1Record, obj2Record, p, key) ==
    LET newPath == NewPath(p, key)
        val1 == Get(obj1Record, key)
        val2 == Get(obj2Record, key)
    IN  IF ~HasKey(key, obj1Record) THEN <<DiffResult(newPath, "added", Undefined, val2)>>
        ELSE IF ~HasKey(key, obj2Record) THEN <<DiffResult(newPath, "removed", val1, Undefined)>>
        ELSE IF ~StrictEq(val1, val2)
             THEN <<DiffResult(newPath, "modified", val1, val2)>>
        ELSE <<DiffResult(newPath, "equal", val1, val2)>>

\* the forEach callback: the records pushed for one key
ForEachKey(obj1Record, obj2Record, p, key) ==
    LET newPath == NewPath(p, key)
        hasKey1 == HasKey(key, obj1Record)
        hasKey2 == HasKey(key, obj2Record)
        val1 == Get(obj1Record, key)
        val2 == Get(obj2Record, key)
    IN  IF ~hasKey1 THEN <<DiffResult(newPath, "added", Undefined, val2)>>
        ELSE IF ~hasKey2 THEN <<DiffResult(newPath, "removed", val1, Undefined)>>
        ELSE IF TypeOf(val1) = "object" /\ val1 # Null /\ TypeOf(val2) = "object" /\ val2 # Null
             THEN compareObjects(val1, val2, newPath)
        ELSE IF ~StrictEq(val1, val2)
             THEN <<DiffResult(newPath, "modified", val1, val2)>>
        ELSE <<DiffResult(newPath, "equal", val1, val2)>>

RECURSIVE PushAll(_, _, _, _)
PushAll(o1, o2, p, keys) ==
    IF keys = <<>> THEN <<>>
    ELSE ForEachKey(o1, o2, p, Head(keys)) \o PushAll(o1, o2, p, Tail(keys))

\* a differ that takes typeof null === "object" at its word
compareObjectsNullAsObject(o1, o2, p) ==
    IF TypeOf(o1) # "object" \/ TypeOf(o2) # "object"
    THEN IF ~StrictEq(o1, o2)
         THEN <<DiffResult(PathOrRoot(p), "modified", o1, o2)>>
         ELSE <<DiffResult(PathOrRoot(p), "equal", o1, o2)>>
    ELSE PushAll(o1, o2, p, AllKeys(ObjectKeys(o1), ObjectKeys(o2)))

compareObjects(o1, o2, p) ==
    IF o1 = Null \/ o2 = Null \/ TypeOf(o1) # "object" \/ TypeOf(o2) # "object"
    THEN IF ~StrictEq(o1, o2)
         THEN <<DiffResult(PathOrRoot(p), "modified", o1, o2)>>
         ELSE <<DiffResult(PathOrRoot(p), "equal", o1, o2)>>
    ELSE PushAll(o1, o2, p, AllKeys(ObjectKeys(o1), ObjectKeys(o2)))

----------------------------------------------------------------------------
(* The decoded documents the differ is exercised on *)

Keys == {"a", "", "0", "toString"}
Leaves == {Null, Num("1"), Num("2"), Str(<<"1">>)}

\* own keys in Object.keys order: an integer-like key comes first, the others
\* keep their insertion order
KeySeqs1 == {<<k>> : k \in Keys}
KeySeqs2 == {ks \in Keys \X Keys : ks[1] # ks[2] /\ ks[2] # "0"}

SeqsUpTo(S, n) == UNION {[1..m -> S] : m \in 0..n}

ObjectsOver(keySeqs, C) == UNION {{Obj(ks, cs) : cs \in [1..Len(ks) -> C]} : ks \in keySeqs}
ArraysOver(C) == {Arr(cs) : cs \in SeqsUpTo(C, MaxArrLen)}

\* containers with at most one own key
Shallow == {Obj(<<>>, <<>>)} \cup ObjectsOver(KeySeqs1, Leaves) \cup ArraysOver(Leaves)
\* leaves and one-level containers of up to two keys
Flat == Leaves \cup Shallow \cup ObjectsOver(KeySeqs2, Leaves)
\* chains: one key at each of two levels
Deep == Leaves \cup Shallow \cup ObjectsOver(KeySeqs1, Shallow) \cup {Arr(<<c>>) : c \in Shallow}
\* two keys, exactly one of them holding a one-key container
Small == {Num("1")} \cup {Obj(<<>>, <<>>), Arr(<<>>)}
             \cup ObjectsOver(KeySeqs1, {Num("1")}) \cup ArraysOver({Num("1")})
Mixed == {v \in ObjectsOver(KeySeqs2, Small) : IsContainer(v.c[1]) # IsContainer(v.c[2])}

\* a key holding the "." of the path separator, beside the key it starts with
DottedKeySeqs == {<<"a.a", "a">>, <<"a", "a.a">>}
Dotted == {v \in ObjectsOver(DottedKeySeqs, Small) : IsContainer(v.c[1]) # IsContainer(v.c[2])}

DocPairs ==
    (Flat \X Flat) \cup (Deep \X Deep) \cup (Mixed \X Mixed) \cup (Dotted \X Dotted)

----------------------------------------------------------------------------
(* The differ called on a pair of decoded documents, in both argument orders *)

CmpIdle ==
    /\ obj1 = Null /\ obj2 = Null
    /\ results = <<>> /\ reversed = <<>> /\ cmpPc = "idle"

StrIdle ==
    /\ oldStr = <<>> /\ newStr = <<>>
    /\ spans = <<>> /\ diffLine = <<>> /\ strPc = "idle"

UiIdle ==
    /\ json1 = "" /\ json2 = "" /\ error1 = "" /\ error2 = ""
    /\ isShowingDiffs = FALSE /\ diffs = <<>> /\ showOnlyDiffs = FALSE
    /\ lastOp = "init" /\ diffsBefore = <<>>

InitCmp ==
    /\ \E pr \in DocPairs : obj1 = pr[1] /\ obj2 = pr[2]
    /\ results = <<>> /\ reversed = <<>> /\ cmpPc = "input"
    /\ StrIdle /\ UiIdle

\* compareObjects(obj1, obj2)
Compare ==
    /\ cmpPc = "input"
    /\ results' = compareObjects(obj1, obj2, "")
    /\ cmpPc' = "compared"
    /\ UNCHANGED <<obj1, obj2, reversed, strVars, uiVars>>

\* compareObjects(obj2, obj1)
CompareReversed ==
    /\ cmpPc = "compared"
    /\ reversed' = compareObjects(obj2, obj1, "")
    /\ cmpPc' = "done"
    /\ UNCHANGED <<obj1, obj2, results, strVars, uiVars>>

NextCmp == Compare \/ CompareReversed

SpecCmp == InitCmp /\ [][NextCmp]_vars

----------------------------------------------------------------------------
(* What the claims speak of, stated without the differ *)

SeqToBag(s) == [x \in Range(s) |-> Cardinality({i \in 1..Len(s) : s[i] = x})]

OwnKeys(v) == Range(v.k)
Child(v, key) == v.c[CHOOSE i \in 1..Len(v.k) : v.k[i] = key]
BothContainers(a, b) == IsContainer(a) /\ IsContainer(b)

\* the leaves (non-object, non-array values) reachable in v
RECURSIVE LeavesOf(_)
LeavesOf(v) ==
    IF ~IsContainer(v) THEN <<v>>
    ELSE LET RECURSIVE Walk(_)
             Walk(i) == IF i > Len(v.c) THEN <<>> ELSE LeavesOf(v.c[i]) \o Walk(i + 1)
         IN  Walk(1)

\* deep equality of two decoded documents (key order of an object is immaterial)
RECURSIVE DeepEqual(_, _)
DeepEqual(a, b) ==
    /\ a.t = b.t
    /\ IF ~IsContainer(a) THEN a.p = b.p
       ELSE IF a.t = "array"
            THEN /\ Len(a.c) = Len(b.c)
                 /\ \A i \in 1..Len(a.c) : DeepEqual(a.c[i], b.c[i])
       ELSE /\ OwnKeys(a) = OwnKeys(b)
            /\ \A key \in OwnKeys(a) : DeepEqual(Child(a, key), Child(b, key))

\* the compared positions that end in a record: key sequences from the root
RECURSIVE TerminalPositions(_, _)
TerminalPositions(a, b) ==
    IF ~BothContainers(a, b) THEN << <<>> >>
    ELSE LET keys == AllKeys(a.k, b.k)
             Under(key) ==
                 IF key \in OwnKeys(a) /\ key \in OwnKeys(b)
                 THEN LET sub == TerminalPositions(Child(a, key), Child(b, key))
                      IN  [i \in 1..Len(sub) |-> <<key>> \o sub[i]]
                 ELSE << <<key>> >>
             RECURSIVE Walk(_)
             Walk(i) == IF i > Len(keys) THEN <<>> ELSE Under(keys[i]) \o Walk(i + 1)
         IN  Walk(1)

RECURSIVE JoinKeys(_)
JoinKeys(ks) == IF Len(ks) = 1 THEN ks[1] ELSE ks[1] \o "." \o JoinKeys(Tail(ks))

\* the path of a position: "root" for the empty key sequence
PathOf(ks) == IF ks = <<>> THEN "root" ELSE JoinKeys(ks)

\* a record read from the other side
Mirror(r) ==
    [path |-> r.path,
     type |-> CASE r.type = "added" -> "removed" [] r.type = "removed" -> "added" [] OTHER -> r.type,
     oldValue |-> r.newValue, newValue |-> r.oldValue]

Compared == cmpPc \in {"compared", "done"}

\* C2 (reflexivity): comparing a document with itself yields only "equal"
\* records, one per leaf reachable in it (empty containers give none), and the
\* single record at "root" when the document is itself a leaf.
C2_Reflexivity ==
    (Compared /\ obj1 = obj2) =>
        /\ \A i \in 1..Len(results) :
               /\ results[i].type = "equal"
               /\ results[i].oldValue = results[i].newValue
        /\ SeqToBag([i \in 1..Len(results) |-> results[i].oldValue]) = SeqToBag(LeavesOf(obj1))
        /\ ~IsContainer(obj1) => results = <<DiffResult("root", "equal", obj1, obj1)>>

C2_Witness ==
    /\ cmpPc = "done" /\ obj1 = obj2 /\ IsContainer(obj1)
    /\ Len(results) = 2
    /\ \E i \in 1..Len(obj1.c) : obj1.c[i] = Null

\* C3 (symmetry): the records of compareObjects(b, a) are, as a multiset, the
\* records of compareObjects(a, b) with added and removed exchanged and the
\* old and new values swapped.
C3_Symmetry ==
    cmpPc = "done" =>
        SeqToBag(reversed) = SeqToBag([i \in 1..Len(results) |-> Mirror(results[i])])

C3_Witness ==
    /\ cmpPc = "done"
    /\ \E i, j, l \in 1..Len(results) :
           /\ results[i].type = "added"
           /\ results[j].type = "modified"
           /\ results[l].type = "equal"

\* C4 (added/removed detection): for two containers, a key that is an own key
\* of the second only gives exactly one "added" record with newValue = b[k]
\* and no oldValue, and a key own to the first only gives exactly one
\* "removed" record with oldValue = a[k] and no newValue.
C4_AddedRemoved ==
    (Compared /\ BothContainers(obj1, obj2)) =>
        /\ \A key \in OwnKeys(obj2) \ OwnKeys(obj1) :
               ForEachKey(obj1, obj2, "", key)
                   = <<DiffResult(key, "added", Undefined, Child(obj2, key))>>
        /\ \A key \in OwnKeys(obj1) \ OwnKeys(obj2) :
               ForEachKey(obj1, obj2, "", key)
                   = <<DiffResult(key, "removed", Child(obj1, key), Undefined)>>

\* strict identity of two values of which one at least is a leaf
Identical(a, b) == ~IsContainer(a) /\ ~IsContainer(b) /\ a = b

\* C5 (type mismatch is modified, not recursed): where the two values at a
\* position (the root, or a key own to both sides) are not both containers,
\* exactly one record is emitted for it: "equal" if the values are strictly
\* identical, else "modified" carrying both values.
C5_Mismatch ==
    Compared =>
        /\ ~BothContainers(obj1, obj2) =>
               results = <<DiffResult("root",
                                      IF Identical(obj1, obj2) THEN "equal" ELSE "modified",
                                      obj1, obj2)>>
        /\ BothContainers(obj1, obj2) =>
               \A key \in OwnKeys(obj1) \cap OwnKeys(obj2) :
                   LET v1 == Child(obj1, key)
                       v2 == Child(obj2, key)
                   IN  ~BothContainers(v1, v2) =>
                           /\ ForEachKey(obj1, obj2, "", key)
                                  = <<DiffResult(key,
                                                 IF Identical(v1, v2) THEN "equal" ELSE "modified",
                                                 v1, v2)>>
                           /\ Len(results) = Len(TerminalPositions(obj1, obj2))

C5_Witness ==
    /\ cmpPc = "done" /\ BothContainers(obj1, obj2)
    /\ \E key \in OwnKeys(obj1) \cap OwnKeys(obj2) :
           /\ Child(obj1, key) = Num("1")
           /\ IsContainer(Child(obj2, key)) /\ Child(obj2, key).c # <<>>
    /\ \E i \in 1..Len(results) :
           results[i].type = "modified" /\ IsContainer(results[i].newValue)

\* C6 (path correctness): the paths of the records are the key sequences of
\* the compared positions joined with ".", and "root" for the empty sequence.
C6_Paths ==
    Compared =>
        LET positions == TerminalPositions(obj1, obj2)
        IN  SeqToBag([i \in 1..Len(results) |-> results[i].path])
                = SeqToBag([i \in 1..Len(positions) |-> PathOf(positions[i])])

\* C7 (completeness): two documents that are not deeply equal give at least
\* one record that is not "equal".
C7_Complete ==
    (Compared /\ ~DeepEqual(obj1, obj2)) =>
        \E i \in 1..Len(results) : results[i].type # "equal"

\* C8 as claimed: a record carries a container only when the other side holds
\* a non-object value.
C8_ContainerOnlyAgainstValue ==
    Compared =>
        \A i \in 1..Len(results) :
            LET r == results[i]
            IN  /\ IsContainer(r.oldValue) => (r.newValue # Undefined /\ ~IsContainer(r.newValue))
                /\ IsContainer(r.newValue) => (r.oldValue # Undefined /\ ~IsContainer(r.oldValue))

\* C8 (amended): a record carries a container only when the other side holds
\* a non-object value or holds nothing (the key is missing there: an added or
\* removed record); no record pairs two containers, an "equal" record carries
\* leaves only, and there is exactly one record per terminal comparison.
C8_NoContainerPair ==
    Compared =>
        /\ \A i \in 1..Len(results) :
               LET r == results[i]
               IN  /\ ~(IsContainer(r.oldValue) /\ IsContainer(r.newValue))
                   /\ (IsContainer(r.oldValue) /\ r.newValue = Undefined) => r.type = "removed"
                   /\ (IsContainer(r.newValue) /\ r.oldValue = Undefined) => r.type = "added"
                   /\ r.type = "equal" => (~IsContainer(r.oldValue) /\ ~IsContainer(r.newValue))
        /\ Len(results) = Len(TerminalPositions(obj1, obj2))

C8_Witness ==
    /\ cmpPc = "done"
    /\ \E i, j \in 1..Len(results) :
           /\ results[i].type = "added" /\ IsContainer(results[i].newValue)
           /\ results[j].type = "modified" /\ IsContainer(results[j].oldValue)

----------------------------------------------------------------------------
(* getStringDiffSpans and the rendering of one diff record *)

Min(a, b) == IF a < b THEN a ELSE b
Max(a, b) == IF a > b THEN a ELSE b

\* String.prototype.slice(start, end); end = -1 stands for undefined
Slice(str, start, end) ==
    LET len == Len(str)
        from == IF start < 0 THEN Max(len + start, 0) ELSE Min(start, len)
        to == IF end = -1 THEN len ELSE Min(end, len)
    IN  SubSeq(str, from + 1, to)

\* n || undefined
OrUndefined(n) == IF n = 0 THEN -1 ELSE n

\* the three spans of the old node and of the new node
getStringDiffSpans(old, new) ==
    LET minLen == Min(Len(old), Len(new))
        RECURSIVE GrowPrefix(_)
        GrowPrefix(n) ==
            IF n < minLen /\ old[n + 1] = new[n + 1] THEN GrowPrefix(n + 1) ELSE n
        prefix == GrowPrefix(0)
        RECURSIVE GrowSuffix(_)
        GrowSuffix(n) ==
            IF n < minLen - prefix /\ old[Len(old) - n] = new[Len(new) - n]
            THEN GrowSuffix(n + 1) ELSE n
        suffix == GrowSuffix(0)
        oldMiddle == Slice(old, prefix, OrUndefined(Len(old) - suffix))
        newMiddle == Slice(new, prefix, OrUndefined(Len(new) - suffix))
        pre == Slice(old, 0, prefix)
        post == Slice(old, Len(old) - suffix, -1)
    IN  [oldNode |-> <<pre, oldMiddle, post>>, newNode |-> <<pre, newMiddle, post>>]

\* formatValue, and the text of renderValueWithHighlight's fallback; the
\* pretty-printed text of a container is one opaque span
formatValue(value) ==
    IF value = Null THEN <<"n", "u", "l", "l">>
    ELSE IF value = Undefined THEN <<"u", "n", "d", "e", "f", "i", "n", "e", "d">>
    ELSE IF IsContainer(value) THEN <<"JSON.stringify">>
    ELSE IF value.t = "string" THEN <<"\"">> \o value.p \o <<"\"">>
    ELSE value.p

\* the spans the call renders
renderValueWithHighlight(value, peerValue, role) ==
    IF value.t = "string" /\ peerValue.t = "string"
    THEN LET nodes == getStringDiffSpans(value.p, peerValue.p)
         IN  IF role = "old" THEN nodes.oldNode ELSE nodes.newNode
    ELSE <<formatValue(value)>>

\* the lines of one record of the results list: "-" line, "+" line, plain line
RenderDiff(diff) ==
    LET bothStrings == diff.oldValue.t = "string" /\ diff.newValue.t = "string"
        minus == IF bothStrings
                 THEN renderValueWithHighlight(diff.oldValue, diff.newValue, "old")
                 ELSE renderValueWithHighlight(diff.oldValue, Undefined, "single")
        plus == IF bothStrings
                THEN renderValueWithHighlight(diff.newValue, diff.oldValue, "new")
                ELSE renderValueWithHighlight(diff.newValue, Undefined, "single")
    IN  [type |-> diff.type,
         oldLine |-> IF diff.type \in {"removed", "modified"} THEN minus ELSE <<>>,
         newLine |-> IF diff.type \in {"added", "modified"} THEN plus ELSE <<>>,
         equalLine |-> IF diff.type = "equal" THEN <<formatValue(diff.oldValue)>> ELSE <<>>]

Chars == {"a", "b", "c"}
Strings == SeqsUpTo(Chars, MaxStrLen)

InitStr ==
    /\ oldStr \in Strings /\ newStr \in Strings
    /\ spans = <<>> /\ diffLine = <<>> /\ strPc = "input"
    /\ CmpIdle /\ UiIdle

\* getStringDiffSpans(oldStr, newStr)
GetStringDiffSpans ==
    /\ strPc = "input"
    /\ spans' = getStringDiffSpans(oldStr, newStr)
    /\ strPc' = "spans"
    /\ UNCHANGED <<oldStr, newStr, diffLine, cmpVars, uiVars>>

\* the results list renders the record of the two strings compared as leaves
RenderRecord ==
    /\ strPc = "spans"
    /\ diffLine' = RenderDiff(compareObjects(Str(oldStr), Str(newStr), "")[1])
    /\ strPc' = "rendered"
    /\ UNCHANGED <<oldStr, newStr, spans, cmpVars, uiVars>>

NextStr == GetStringDiffSpans \/ RenderRecord

SpecStr == InitStr /\ [][NextStr]_vars

Flatten(node) == node[1] \o node[2] \o node[3]

\* the segment of str that differs from other: str without the common prefix
\* and the common suffix (the suffix not overlapping the prefix)
ChangedSegment(str, other) ==
    LET minLen == Min(Len(str), Len(other))
        pre == CHOOSE n \in 0..minLen :
                   /\ \A i \in 1..n : str[i] = other[i]
                   /\ n < minLen => str[n + 1] # other[n + 1]
        suf == CHOOSE n \in 0..(minLen - pre) :
                   /\ \A i \in 0..(n - 1) : str[Len(str) - i] = other[Len(other) - i]
                   /\ n < minLen - pre => str[Len(str) - n] # other[Len(other) - n]
    IN  SubSeq(str, pre + 1, Len(str) - suf)

\* C1 (highlighter invariant): pre + oldMiddle + post is oldStr and
\* pre + newMiddle + post is newStr, for all strings.
C1_Reconstruct ==
    strPc \in {"spans", "rendered"} =>
        /\ Flatten(spans.oldNode) = oldStr
        /\ Flatten(spans.newNode) = newStr

\* C10 (rendering of a modified string pair): the spans of the "-" line
\* concatenate to oldValue with oldValue's changed segment as the highlighted
\* middle, and the spans of the "+" line concatenate to newValue with
\* newValue's changed segment as the highlighted middle.
C10_RenderedLines ==
    (strPc = "rendered" /\ diffLine.type = "modified") =>
        /\ Flatten(diffLine.oldLine) = oldStr
        /\ diffLine.oldLine[2] = ChangedSegment(oldStr, newStr)
        /\ Flatten(diffLine.newLine) = newStr
        /\ diffLine.newLine[2] = ChangedSegment(newStr, oldStr)

----------------------------------------------------------------------------
(* The component: the texts, validateJson and the handlers *)

\* the texts typed into the two textareas
Texts == {"", " ", "{", "null", "1", "{}", "[1]", "{\"a\":1}", "{\"a\":\"1\"}"}

\* text.trim()
Trim(text) == IF text = " " THEN "" ELSE text

\* JSON.parse(text) throws
ParseThrows(text) == text \in {"", " ", "{"}

\* JSON.parse(text) where it returns
JSONParse(text) ==
    CASE text = "null" -> Null
      [] text = "1" -> Num("1")
      [] text = "{}" -> Obj(<<>>, <<>>)
      [] text = "[1]" -> Arr(<<Num("1")>>)
      [] text = "{\"a\":1}" -> Obj(<<"a">>, <<Num("1")>>)
      [] text = "{\"a\":\"1\"}" -> Obj(<<"a">>, <<Str(<<"1">>)>>)

\* e.message of the SyntaxError
ParseErrorMessage(text) == "Unexpected end of JSON input"

\* a validator that reports a failure without clearing what is shown
validateJsonSilent(text) ==
    IF Trim(text) = "" THEN [parsed |-> Null, error |-> ""]
    ELSE IF ParseThrows(text) THEN [parsed |-> Obj(<<>>, <<>>), error |-> ParseErrorMessage(text)]
    ELSE [parsed |-> JSONParse(text), error |-> ""]

\* validateJson: the value returned and the error handed to setError
validateJson(text) ==
    IF Trim(text) = "" THEN [parsed |-> Null, error |-> ""]
    ELSE IF ParseThrows(text) THEN [parsed |-> Null, error |-> ParseErrorMessage(text)]
    ELSE [parsed |-> JSONParse(text), error |-> ""]

\* the disabled attribute of the Compare JSON and Edit JSONs buttons
ButtonDisabled == Trim(json1) = "" \/ Trim(json2) = "" \/ error1 # "" \/ error2 # ""

Init == UiIdle /\ CmpIdle /\ StrIdle

\* onChange of the first textarea
EditJson1 ==
    /\ ~isShowingDiffs
    /\ \E text \in Texts :
           /\ json1' = text
           /\ error1' = validateJson(text).error
    /\ lastOp' = "edit" /\ diffsBefore' = diffs
    /\ UNCHANGED <<json2, error2, isShowingDiffs, diffs, showOnlyDiffs, cmpVars, strVars>>

\* onChange of the second textarea
EditJson2 ==
    /\ ~isShowingDiffs
    /\ \E text \in Texts :
           /\ json2' = text
           /\ error2' = validateJson(text).error
    /\ lastOp' = "edit" /\ diffsBefore' = diffs
    /\ UNCHANGED <<json1, error1, isShowingDiffs, diffs, showOnlyDiffs, cmpVars, strVars>>

\* a handler that shows the results panel whatever validateJson returned
HandleCompareAlwaysShows ==
    LET v1 == validateJson(json1)
        v2 == validateJson(json2)
    IN  /\ error1' = v1.error
        /\ error2' = v2.error
        /\ IF v1.parsed # Null /\ v2.parsed # Null
           THEN diffs' = compareObjects(v1.parsed, v2.parsed, "")
           ELSE diffs' = <<>>
        /\ isShowingDiffs' = TRUE
        /\ lastOp' = "handleCompare" /\ diffsBefore' = diffs
        /\ UNCHANGED <<json1, json2, showOnlyDiffs, cmpVars, strVars>>

\* handleCompare
HandleCompareBody ==
    LET v1 == validateJson(json1)
        v2 == validateJson(json2)
    IN  /\ error1' = v1.error
        /\ error2' = v2.error
        /\ IF v1.parsed # Null /\ v2.parsed # Null
           THEN /\ diffs' = compareObjects(v1.parsed, v2.parsed, "")
                /\ isShowingDiffs' = TRUE
           ELSE /\ diffs' = <<>>
                /\ isShowingDiffs' = FALSE
        /\ lastOp' = "handleCompare" /\ diffsBefore' = diffs
        /\ UNCHANGED <<json1, json2, showOnlyDiffs, cmpVars, strVars>>

\* a click on Compare JSON
HandleCompare == ~isShowingDiffs /\ ~ButtonDisabled /\ HandleCompareBody

\* handleCompare called whatever the texts hold
CallHandleCompare == ~isShowingDiffs /\ HandleCompareBody

\* a click on Edit JSONs
EditJsons ==
    /\ isShowingDiffs /\ ~ButtonDisabled
    /\ isShowingDiffs' = FALSE
    /\ lastOp' = "editJsons" /\ diffsBefore' = diffs
    /\ UNCHANGED <<json1, json2, error1, error2, diffs, showOnlyDiffs, cmpVars, strVars>>

\* handleClear, a click on Clear All
HandleClear ==
    /\ ~isShowingDiffs
    /\ json1' = "" /\ json2' = ""
    /\ error1' = "" /\ error2' = ""
    /\ diffs' = <<>>
    /\ isShowingDiffs' = FALSE
    /\ lastOp' = "handleClear" /\ diffsBefore' = diffs
    /\ UNCHANGED <<showOnlyDiffs, cmpVars, strVars>>

\* onCheckedChange of the Show only differences checkbox
ToggleShowOnlyDiffs ==
    /\ showOnlyDiffs' = ~showOnlyDiffs
    /\ UNCHANGED <<json1, json2, error1, error2, isShowingDiffs, diffs, lastOp, diffsBefore,
                   cmpVars, strVars>>

Next ==
    \/ EditJson1 \/ EditJson2 \/ HandleCompare \/ EditJsons
    \/ HandleClear \/ ToggleShowOnlyDiffs

Spec == Init /\ [][Next]_vars

\* the handlers with handleCompare callable on any texts
NextCall ==
    \/ EditJson1 \/ EditJson2 \/ CallHandleCompare \/ EditJsons
    \/ HandleClear \/ ToggleShowOnlyDiffs

SpecCall == Init /\ [][NextCall]_vars

\* the text decodes: it is not blank and JSON.parse returns
Decodes(text) == Trim(text) # "" /\ ~ParseThrows(text)

\* C9: handleCompare compares only when both texts decode; when a text is
\* blank or invalid JSON it leaves diffs empty and isShowingDiffs false,
\* whatever diffs held before.
C9_CompareOnlyDecoded ==
    lastOp = "handleCompare" =>
        /\ (isShowingDiffs \/ diffs # <<>>) => (Decodes(json1) /\ Decodes(json2))
        /\ ~(Decodes(json1) /\ Decodes(json2)) => (diffs = <<>> /\ ~isShowingDiffs)

C9_Witness ==
    /\ lastOp = "handleCompare"
    /\ ParseThrows(json1) /\ Trim(json1) # "" /\ Decodes(json2)
    /\ diffsBefore # <<>>
    /\ diffs = <<>> /\ ~isShowingDiffs

\* C11: handleCompare on two non-blank texts that are each a valid JSON
\* document (the literal null included) sets diffs to the comparison of the
\* two decoded documents and isShowingDiffs to true.
C11_ValidIsCompared ==
    (lastOp = "handleCompare" /\ Decodes(json1) /\ Decodes(json2)) =>
        /\ diffs = compareObjects(JSONParse(json1), JSONParse(json2), "")
        /\ isShowingDiffs

\* C12: whenever the results are shown both texts are non-blank valid JSON,
\* both errors are empty and diffs is the comparison of the current texts;
\* after Clear All the texts, the errors and diffs are empty and the results
\* are not shown.
C12_ShownIsCurrent ==
    /\ isShowingDiffs =>
           /\ Decodes(json1) /\ Decodes(json2)
           /\ error1 = "" /\ error2 = ""
           /\ diffs = compareObjects(JSONParse(json1), JSONParse(json2), "")
    /\ lastOp = "handleClear" =>
           /\ json1 = "" /\ json2 = ""
           /\ error1 = "" /\ error2 = ""
           /\ diffs = <<>> /\ ~isShowingDiffs

C12_Witness ==
    /\ isShowingDiffs /\ showOnlyDiffs
    /\ lastOp = "handleCompare" /\ diffsBefore # <<>>
    /\ \E i \in 1..Len(diffs) : diffs[i].type = "modified"

C12_WitnessCleared ==
    /\ lastOp = "handleClear" /\ diffsBefore # <<>>
    /\ json1 = "" /\ diffs = <<>>

\* C13: within one result of compareObjects no two records have the same
\* path.
C13_UniquePaths ==
    Compared =>
        \A i, j \in 1..Len(results) : i # j => results[i].path # results[j].path

====
